---- MODULE Spec2Model ----
(***************************************************************************)
(* AudioManager (src/audio_manager.py): an in-memory cache of decoded      *)
(* sound clips, preloaded at construction, with fire-and-forget playback   *)
(* on one daemon thread per play_sound call.                                *)
(*                                                                          *)
(* The model has two caller threads that invoke the public methods, the    *)
(* daemon threads spawned by play_sound, the file system seen through      *)
(* os.path.exists / soundfile.read, and the sounddevice module seen as     *)
(* the count of the calls made to it.                                       *)
(***************************************************************************)
EXTENDS Integers, Sequences, FiniteSets, TLC

----------------------------------------------------------------------------
(* Bounds of the model *)

\* what the environment does in one run: the default sound files that are
\* missing or undecodable, plus the calls made after the constructor returned
MaxEvents == 2
\* frames in every decodable file
FrameCount == 2

----------------------------------------------------------------------------
(* Program constants *)

\* sd.play(..., blocksize=2048), sd.default.blocksize = 2048
BlockSize == 2048
\* np.zeros((100,), dtype=np.float32)
WarmupFrames == 100
\* sd.play(silence, 22050, ...)
WarmupRate == 22050

\* self.default_sounds, in the dict's iteration order
default_sounds ==
    << [key |-> "AP_Engage",       filename |-> "AP_Engage.mp3"],
       [key |-> "AP_Disengage",    filename |-> "AP_Disengage.mp3"],
       [key |-> "NoA_Engage",      filename |-> "NoA_Engage.mp3"],
       [key |-> "rec_start_voice", filename |-> "rec_start_voice.mp3"],
       [key |-> "rec_stop_voice",  filename |-> "rec_stop_voice.mp3"],
       [key |-> "chime_single",    filename |-> "chime_single.mp3"],
       [key |-> "chime_hi_lo",     filename |-> "chime_hi_lo.mp3"] >>

\* self.sounds_dir, as path components
sounds_dir == << "src", "sounds" >>

\* os.path.abspath(".") : the base path outside a PyInstaller bundle
base_path == << "." >>

----------------------------------------------------------------------------
(* Paths and the file system *)

\* os.path.join on relative paths
PathJoin(a, b) == a \o b

\* AudioManager._get_resource_path
ResourcePath(relative_path) == PathJoin(base_path, relative_path)

\* the resolved path of the i-th default sound (lines 92-93)
DefaultPath(i) == ResourcePath(PathJoin(sounds_dir, << default_sounds[i].filename >>))

DefaultIdx == 1..Len(default_sounds)
DefaultKeys == { default_sounds[i].key : i \in DefaultIdx }

\* relative paths handed to add_sound by the callers of the model
AddPaths ==
    { << "missing.mp3" >>, << "corrupt.mp3" >>, << "mono.wav" >>,
      << "surround.wav" >> }

\* keys the callers of the model use: a default key, and a key of no default
CallKeys == { "chime_single", "chime" }

\* keys the callers of the model play: those, and a second default key
PlayKeys == CallKeys \cup { "chime_hi_lo" }

\* what a path holds: no file, a file the decoder rejects, or audio
NoFile      == [kind |-> "missing", channels |-> 0, fs |-> 0, id |-> 0]
CorruptFile == [kind |-> "corrupt", channels |-> 0, fs |-> 0, id |-> 0]
AudioFile(ch, rate, n) == [kind |-> "audio", channels |-> ch, fs |-> rate, id |-> n]

\* the audio a default file holds when it is there: mono and stereo alternate
DefaultAudio(i) == AudioFile(IF i % 2 = 1 THEN 1 ELSE 2, IF i % 2 = 1 THEN 44100 ELSE 48000, i)

\* the files only add_sound reaches
ExtraFiles ==
    [p \in { << ".", "missing.mp3" >>, << ".", "corrupt.mp3" >>,
             << ".", "mono.wav" >>, << ".", "surround.wav" >> } |->
        IF p[2] = "missing.mp3" THEN NoFile
        ELSE IF p[2] = "corrupt.mp3" THEN CorruptFile
        ELSE IF p[2] = "mono.wav" THEN AudioFile(1, 22050, 8)
        ELSE AudioFile(3, 48000, 9)]

\* the file systems the model starts from: at most MaxEvents default files are
\* missing or corrupt, each of the others holds its audio
FaultAssignments ==
    { f \in [DefaultIdx -> {"ok", "missing", "corrupt"}] :
        Cardinality({ i \in DefaultIdx : f[i] # "ok" }) <= MaxEvents }

FileSystem(f) ==
    [p \in { DefaultPath(i) : i \in DefaultIdx } \cup DOMAIN ExtraFiles |->
        IF p \in DOMAIN ExtraFiles THEN ExtraFiles[p]
        ELSE LET i == CHOOSE j \in DefaultIdx : DefaultPath(j) = p
             IN  IF f[i] = "missing" THEN NoFile
                 ELSE IF f[i] = "corrupt" THEN CorruptFile
                 ELSE DefaultAudio(i)]

----------------------------------------------------------------------------
(* soundfile and numpy *)

\* sample c of frame j of the file with identity n
Sample(n, j, c) == n * 100 + j * 10 + c

\* sf.read: a 1-D array for a mono file, an (N, channels) array otherwise
SfRead(file) ==
    [data |-> IF file.channels = 1
              THEN [shape |-> << FrameCount >>,
                    x |-> [j \in 1..FrameCount |-> Sample(file.id, j, 1)]]
              ELSE [shape |-> << FrameCount, file.channels >>,
                    x |-> [j \in 1..FrameCount |->
                             [c \in 1..file.channels |-> Sample(file.id, j, c)]]],
     fs |-> file.fs]



\* the conversion written with np.vstack: the two copies become two rows
ColumnStackRows(a, b) ==
    [shape |-> << 2, a.shape[1] >>, x |-> << a.x, b.x >>]

\* np.column_stack((a, b)) of two 1-D arrays
ColumnStack(a, b) ==
    [shape |-> << a.shape[1], 2 >>,
     x |-> [j \in 1..a.shape[1] |-> << a.x[j], b.x[j] >>]]

\* "Convert mono to stereo": if len(data.shape) == 1: data = column_stack((data, data))
MonoToStereo(data) == IF Len(data.shape) = 1 THEN ColumnStack(data, data) ELSE data

\* the cache entry built from a decoded file: {'data': data, 'fs': fs}
MakeEntry(decoded) == [data |-> MonoToStereo(decoded.data), fs |-> decoded.fs]

\* np.zeros((100,), dtype=np.float32)
Silence == [shape |-> << WarmupFrames >>, x |-> [j \in 1..WarmupFrames |-> 0]]

NoEntry == [data |-> [shape |-> << >>, x |-> << >>], fs |-> 0]

----------------------------------------------------------------------------
(* The dict self.audio_cache: key/value pairs in insertion order *)

DictHas(d, k) == \E i \in 1..Len(d) : d[i].key = k

DictGet(d, k) == d[CHOOSE i \in 1..Len(d) : d[i].key = k].val

DictSet(d, k, v) ==
    IF DictHas(d, k)
    THEN [i \in 1..Len(d) |-> IF d[i].key = k THEN [key |-> k, val |-> v] ELSE d[i]]
    ELSE Append(d, [key |-> k, val |-> v])

\* list(d.keys())
DictKeys(d) == [i \in 1..Len(d) |-> d[i].key]

KeySet(d) == { d[i].key : i \in 1..Len(d) }

----------------------------------------------------------------------------
(* Exceptions: which function's "except Exception" catches a raise *)

\* _play_thread written without its try / except
TryBlocksNoThread ==
    { "initialize", "_warmup_audio_stream", "_preload_audio_files",
      "add_sound", "stop_all_sounds" }

\* add_sound written without its try / except
TryBlocksNoAdd ==
    { "initialize", "_warmup_audio_stream", "_preload_audio_files",
      "_play_thread", "stop_all_sounds" }

\* stop_all_sounds written without its try / except
TryBlocksNoStop ==
    { "initialize", "_warmup_audio_stream", "_preload_audio_files",
      "add_sound", "_play_thread" }

\* the functions whose body is wrapped in try / except Exception
TryBlocks ==
    { "initialize", "_warmup_audio_stream", "_preload_audio_files",
      "add_sound", "_play_thread", "stop_all_sounds" }

\* the call stack at each place that can raise, innermost function first
Frames(site) ==
    CASE site = "configure"    -> << "initialize" >>
      [] site = "preload_read" -> << "_preload_audio_files", "initialize" >>
      [] site = "warmup"       -> << "_warmup_audio_stream", "initialize" >>
      [] site = "add_read"     -> << "add_sound" >>
      [] site = "thread"       -> << "_play_thread" >>
      [] site = "get_read"     -> << "get_audio_data" >>
      [] site = "stop"         -> << "stop_all_sounds" >>

\* the function that catches an exception raised at site, "" when none does
CaughtIn(site) ==
    LET fr == Frames(site)
        hit == { i \in 1..Len(fr) : fr[i] \in TryBlocks }
    IN  IF hit = {} THEN ""
        ELSE fr[CHOOSE i \in hit : \A j \in hit : i <= j]

----------------------------------------------------------------------------
(* State *)

Callers == { "c1", "c2" }
\* the thread that imports the module and so runs AudioManager()
Constructor == "c1"

VARIABLES
    files,        \* the file system: resolved path -> what it holds
    audio_cache,  \* self.audio_cache
    initialized,  \* self._initialized
    pc,           \* where each caller is inside the method it runs
    cur,          \* the call each caller runs
    local,        \* the locals of that call
    result,       \* the call that returned in the last step, and what it returned
    threads,      \* the daemon threads started by play_sound, in start order
    device,       \* the calls made to sounddevice so far, counted by kind
    ncalls,       \* calls started after the constructor returned
    added,        \* keys stored by add_sound so far
    last_insert,  \* key -> resolved path of the last file stored under it
    true_plays,   \* play_sound calls that have returned True
    hist,         \* what has happened so far: see Init
    running       \* the Python process has not ended

vars == << files, audio_cache, initialized, pc, cur, local, result, threads,
           device, ncalls, added, last_insert, true_plays, hist, running >>

AllKeys == DefaultKeys \cup CallKeys \cup PlayKeys

NoCall == [op |-> "none", key |-> "", path |-> << >>, call |-> -1]
NoLocal == [idx |-> 0, entry |-> NoEntry, tid |-> 0, warm |-> ""]
NoResult == [op |-> "none", key |-> "", path |-> << >>, call |-> -1,
             ret |-> "None", val |-> NoEntry, keys |-> << >>, exc |-> FALSE]

\* the default sound files that are missing or undecodable
FaultCount == Cardinality({ i \in DefaultIdx : files[DefaultPath(i)].kind # "audio" })

\* the constructor is still inside self.initialize()
Constructing == \E c \in Callers : cur[c].call = 0

Init ==
    /\ files \in { FileSystem(f) : f \in FaultAssignments }
    /\ audio_cache = << >>
    /\ initialized = FALSE
    /\ pc = [c \in Callers |-> IF c = Constructor THEN "init_config" ELSE "idle"]
    /\ cur = [c \in Callers |->
                IF c = Constructor
                THEN [op |-> "initialize", key |-> "", path |-> << >>, call |-> 0]
                ELSE NoCall]
    /\ local = [c \in Callers |-> NoLocal]
    /\ result = NoResult
    /\ threads = << >>
    /\ device = [configure |-> 0, play |-> 0, wait |-> 0, stop |-> 0,
                 warm |-> [data |-> NoEntry.data, fs |-> 0, blocksize |-> 0]]
    /\ ncalls = 0
    /\ added = {}
    /\ last_insert = [k \in AllKeys |-> << >>]
    /\ true_plays = 0
    \* at_call[t]: the entry under the key of thread t when its play_sound call
    \* tested the key; stopped: the threads whose play_sound call had returned
    \* and that had not reached sd.play when a stop_all_sounds call stopped the
    \* device; preloads, warmups: runs of _preload_audio_files and of
    \* _warmup_audio_stream; overlapped: two initialize calls ran at once
    /\ hist = [at_call |-> << >>, stopped |-> {}, preloads |-> 0, warmups |-> 0,
               overlapped |-> FALSE]
    /\ running = TRUE

----------------------------------------------------------------------------
(* Calls and returns *)

\* the device after one more call of a kind, whether it succeeds or raises
DevCall(dev, kind) == [dev EXCEPT ![kind] = @ + 1]

\* a caller may start a call. An idle caller holds no state, so the callers are
\* interchangeable: the call is started by the first idle one.
CanCall(c) ==
    /\ running
    /\ pc[c] = "idle"
    /\ ~Constructing
    /\ ncalls + FaultCount < MaxEvents
    /\ c = Constructor \/ pc[Constructor] # "idle"

NewCall(op, k, p) == [op |-> op, key |-> k, path |-> p, call |-> ncalls + 1]

\* the call `call` of caller c is over: it returned ret, or raised
Finish(c, call, ret, val, keys, exc) ==
    /\ pc' = [pc EXCEPT ![c] = "idle"]
    /\ cur' = [cur EXCEPT ![c] = NoCall]
    /\ local' = [local EXCEPT ![c] = NoLocal]
    /\ result' = [op |-> call.op, key |-> call.key, path |-> call.path,
                  call |-> call.call, ret |-> ret, val |-> val,
                  keys |-> keys, exc |-> exc]

Return(c, call, ret) == Finish(c, call, ret, NoEntry, << >>, FALSE)

Raise(c, call) == Finish(c, call, "None", NoEntry, << >>, TRUE)

\* the caller goes on inside its call
Goto(c, label, loc) ==
    /\ pc' = [pc EXCEPT ![c] = label]
    /\ local' = [local EXCEPT ![c] = loc]
    /\ cur' = cur
    /\ result' = NoResult

----------------------------------------------------------------------------
(* initialize, _preload_audio_files, _warmup_audio_stream *)

\* initialize written without its guard
NeverInitialized == FALSE

\* "if self._initialized: return"
AlreadyInitialized == initialized

\* the callers that are inside initialize
Initializing == { c \in Callers : cur[c].op = "initialize" }

InitializeCall(c) ==
    /\ CanCall(c)
    /\ ncalls' = ncalls + 1
    /\ IF AlreadyInitialized
       THEN /\ Return(c, NewCall("initialize", "", << >>), "None")
            /\ hist' = hist
       ELSE /\ pc' = [pc EXCEPT ![c] = "init_config"]
            /\ cur' = [cur EXCEPT ![c] = NewCall("initialize", "", << >>)]
            /\ local' = local
            /\ result' = NoResult
            /\ hist' = [hist EXCEPT !.overlapped = @ \/ Initializing # {}]
    /\ UNCHANGED << files, audio_cache, initialized, threads, device, added,
                    last_insert, true_plays, running >>

\* an exception inside initialize's try block, raised at site
InitializeRaised(c, site) ==
    IF CaughtIn(site) = "initialize"
    THEN Return(c, cur[c], "None")
    ELSE Raise(c, cur[c])

\* sd.default.latency / blocksize / dtype / latency
InitConfigure(c) ==
    /\ pc[c] = "init_config"
    /\ \E ok \in BOOLEAN :
         /\ device' = DevCall(device, "configure")
         /\ IF ok
            THEN /\ Goto(c, "init_preload", [local[c] EXCEPT !.idx = 1])
                 /\ hist' = [hist EXCEPT !.preloads = @ + 1]
            ELSE /\ InitializeRaised(c, "configure")
                 /\ hist' = hist
    /\ UNCHANGED << files, audio_cache, initialized, threads, ncalls, added,
                    last_insert, true_plays, running >>

\* where the loop of _preload_audio_files goes after entry i
AfterEntry(c, i) ==
    IF i < Len(default_sounds)
    THEN Goto(c, "init_preload", [local[c] EXCEPT !.idx = i + 1])
    ELSE Goto(c, "init_warmup", local[c])

\* _preload_audio_files written to raise on a missing file: the loop ends there
PreloadMissingRaises(c, i) == Goto(c, "init_warmup", local[c])

\* lines 105-106: the file is not there: a warning, and the loop goes on
PreloadMissing(c, i) == AfterEntry(c, i)

\* one turn of the loop of _preload_audio_files
PreloadStep(c) ==
    /\ pc[c] = "init_preload"
    /\ LET i == local[c].idx
           resolved_path == DefaultPath(i)
           file == files[resolved_path]
       IN  CASE file.kind = "missing" ->
                  /\ PreloadMissing(c, i)
                  /\ UNCHANGED << audio_cache, last_insert >>
             [] file.kind = "corrupt" ->
                  /\ IF CaughtIn("preload_read") = "_preload_audio_files"
                     THEN Goto(c, "init_warmup", local[c])
                     ELSE InitializeRaised(c, "preload_read")
                  /\ UNCHANGED << audio_cache, last_insert >>
             [] file.kind = "audio" ->
                  /\ audio_cache' = DictSet(audio_cache, default_sounds[i].key,
                                            MakeEntry(SfRead(file)))
                  /\ last_insert' = [last_insert EXCEPT
                                       ![default_sounds[i].key] = resolved_path]
                  /\ AfterEntry(c, i)
    /\ UNCHANGED << files, initialized, threads, device, ncalls, added, true_plays, hist, running >>

\* an exception inside _warmup_audio_stream's try block
WarmupRaised(c) ==
    IF CaughtIn("warmup") = "_warmup_audio_stream"
    THEN Goto(c, "init_flag", [local[c] EXCEPT !.warm = "failed"])
    ELSE InitializeRaised(c, "warmup")

\* sd.play(silence, 22050, blocksize=2048)
WarmupPlay(c) ==
    /\ pc[c] = "init_warmup"
    /\ \E ok \in BOOLEAN :
         /\ device' = [DevCall(device, "play") EXCEPT
                          !.warm = [data |-> Silence, fs |-> WarmupRate,
                                    blocksize |-> BlockSize]]
         /\ IF ok
            THEN Goto(c, "init_wait", [local[c] EXCEPT !.warm = "playing"])
            ELSE WarmupRaised(c)
    /\ hist' = [hist EXCEPT !.warmups = @ + 1]
    /\ UNCHANGED << files, audio_cache, initialized, threads, ncalls, added,
                    last_insert, true_plays, running >>

\* the silent buffer that the caller c started is no longer playing: it has
\* been played to its end, or the device was stopped
SilenceEnds(c) ==
    /\ pc[c] = "init_wait"
    /\ local[c].warm = "playing"
    /\ Goto(c, "init_wait", [local[c] EXCEPT !.warm = "over"])
    /\ UNCHANGED << files, audio_cache, initialized, threads, device, ncalls,
                    added, last_insert, true_plays, hist, running >>

\* _warmup_audio_stream written without sd.wait(): nothing is waited for
WaitReturnsAtOnce(c) == TRUE

\* sd.wait() returns when the playback that sd.play started is over
WaitMayReturn(c) == local[c].warm = "over"

\* sd.wait(): it returns once the playback is over, or raises
WarmupWait(c) ==
    /\ pc[c] = "init_wait"
    /\ \E ok \in BOOLEAN :
         /\ ok => WaitMayReturn(c)
         /\ device' = DevCall(device, "wait")
         /\ IF ok
            THEN Goto(c, "init_flag", [local[c] EXCEPT !.warm = "waited"])
            ELSE WarmupRaised(c)
    /\ UNCHANGED << files, audio_cache, initialized, threads, ncalls, added,
                    last_insert, true_plays, hist, running >>

\* self._initialized = True, and initialize returns
InitFinish(c) ==
    /\ pc[c] = "init_flag"
    /\ initialized' = TRUE
    /\ Return(c, cur[c], "None")
    /\ UNCHANGED << files, audio_cache, threads, device, ncalls, added,
                    last_insert, true_plays, hist, running >>

----------------------------------------------------------------------------
(* add_sound *)

\* lines 117-126: resolve the path, test that it exists, decode, convert
AddSoundCall(c, sound_key, file_path) ==
    /\ CanCall(c)
    /\ ncalls' = ncalls + 1
    /\ LET call == NewCall("add_sound", sound_key, file_path)
           file == files[ResourcePath(file_path)]
       IN  CASE file.kind = "missing" -> Return(c, call, "False")
             [] file.kind = "corrupt" ->
                  IF CaughtIn("add_read") = "add_sound"
                  THEN Return(c, call, "False")
                  ELSE Raise(c, call)
             [] file.kind = "audio" ->
                  /\ pc' = [pc EXCEPT ![c] = "add_store"]
                  /\ cur' = [cur EXCEPT ![c] = call]
                  /\ local' = [local EXCEPT ![c].entry = MakeEntry(SfRead(file))]
                  /\ result' = NoResult
    /\ UNCHANGED << files, audio_cache, initialized, threads, device, added,
                    last_insert, true_plays, hist, running >>

\* add_sound written with setdefault: an entry already there is kept
StoreEntryKeepOld(d, sound_key, entry) ==
    IF DictHas(d, sound_key) THEN d ELSE DictSet(d, sound_key, entry)

\* add_sound written over a list of entries: every insert appends
StoreEntryAppend(d, sound_key, entry) == Append(d, [key |-> sound_key, val |-> entry])

\* add_sound written over a cache of bounded size: a new key evicts the oldest
StoreEntryEvict(d, sound_key, entry) ==
    IF DictHas(d, sound_key) \/ Len(d) < Len(default_sounds)
    THEN DictSet(d, sound_key, entry)
    ELSE Append(Tail(d), [key |-> sound_key, val |-> entry])

\* add_sound written to rebuild the cache: self.audio_cache = {sound_key: {...}}
StoreEntryFresh(d, sound_key, entry) == << [key |-> sound_key, val |-> entry] >>

\* the dict after "self.audio_cache[sound_key] = {...}"
StoreEntry(d, sound_key, entry) == DictSet(d, sound_key, entry)

\* lines 128-134: store the entry and return True
AddSoundStore(c) ==
    /\ pc[c] = "add_store"
    /\ audio_cache' = StoreEntry(audio_cache, cur[c].key, local[c].entry)
    /\ added' = added \cup { cur[c].key }
    /\ last_insert' = [last_insert EXCEPT ![cur[c].key] = ResourcePath(cur[c].path)]
    /\ Return(c, cur[c], "True")
    /\ UNCHANGED << files, initialized, threads, device, ncalls, true_plays, hist, running >>

----------------------------------------------------------------------------
(* play_sound and the thread it starts *)

NewThread(sound_key) ==
    [key |-> sound_key, pc |-> "start", audio |-> NoEntry, played |-> NoEntry,
     err |-> "none", writes |-> 0]

\* play_sound written without its membership test
KeyNeverMissing(sound_key) == FALSE

\* "if sound_key not in self.audio_cache"
KeyMissing(sound_key) == ~DictHas(audio_cache, sound_key)

\* lines 142-170: the lookup, and thread.start() when the key is there
PlayCall(c, sound_key) ==
    /\ CanCall(c)
    /\ ncalls' = ncalls + 1
    /\ LET call == NewCall("play_sound", sound_key, << >>)
       IN  IF KeyMissing(sound_key)
           THEN /\ Return(c, call, "False")
                /\ UNCHANGED << threads, hist, running >>
           ELSE /\ threads' = Append(threads, NewThread(sound_key))
                /\ hist' = [hist EXCEPT !.at_call =
                               Append(@, IF DictHas(audio_cache, sound_key)
                                         THEN DictGet(audio_cache, sound_key)
                                         ELSE NoEntry)]
                /\ pc' = [pc EXCEPT ![c] = "play_return"]
                /\ cur' = [cur EXCEPT ![c] = call]
                /\ local' = [local EXCEPT ![c].tid = Len(threads) + 1]
                /\ result' = NoResult
    /\ UNCHANGED << files, audio_cache, initialized, device, added, last_insert,
                    true_plays, running >>

\* play_sound written with thread.join() before "return True"
PlayJoinsThread(c) == threads[local[c].tid].pc \in { "done", "error_logged", "uncaught" }

\* what play_sound waits for between thread.start() and "return True": nothing
PlayMayReturn(c) == TRUE

\* line 171: return True
PlayReturn(c) ==
    /\ pc[c] = "play_return"
    /\ PlayMayReturn(c)
    /\ true_plays' = true_plays + 1
    /\ Return(c, cur[c], "True")
    /\ UNCHANGED << files, audio_cache, initialized, threads, device, ncalls,
                    added, last_insert, hist, running >>

Threads == 1..Len(threads)

\* where a thread ends when an exception is raised inside _play_thread
ThreadRaised(t, err) ==
    IF CaughtIn("thread") = "_play_thread"
    THEN [threads[t] EXCEPT !.pc = "error_logged", !.err = err]
    ELSE [threads[t] EXCEPT !.pc = "uncaught", !.err = err]

\* lines 149-157: SetThreadPriority, whose failure is caught and ignored, then
\* audio = self.audio_cache[sound_key]
ThreadLookup(t) ==
    /\ running
    /\ threads[t].pc = "start"
    /\ threads' = [threads EXCEPT ![t] =
                     IF DictHas(audio_cache, threads[t].key)
                     THEN [threads[t] EXCEPT
                             !.pc = "play",
                             !.audio = DictGet(audio_cache, threads[t].key)]
                     ELSE ThreadRaised(t, "KeyError")]
    /\ result' = NoResult
    /\ UNCHANGED << files, audio_cache, initialized, pc, cur, local, device,
                    ncalls, added, last_insert, true_plays, hist, running >>

\* _play_thread written to call sd.play again after a device error
ThreadAfterPlayRetry(t, ok) ==
    IF ok
    THEN [threads[t] EXCEPT !.pc = "done", !.writes = @ + 1, !.played = threads[t].audio]
    ELSE [threads[t] EXCEPT !.writes = @ + 1, !.played = threads[t].audio]

\* _play_thread written to look the sample rate up again at the device write:
\* sd.play(audio['data'], self.audio_cache[sound_key]['fs'], ...)
ThreadAfterPlayRereadsRate(t, ok) ==
    [(IF ok THEN [threads[t] EXCEPT !.pc = "done"]
      ELSE ThreadRaised(t, "DeviceError"))
     EXCEPT !.writes = @ + 1,
            !.played = [data |-> threads[t].audio.data,
                        fs |-> DictGet(audio_cache, threads[t].key).fs]]

\* _play_thread written to subscript the cache at the device write:
\* sd.play(self.audio_cache[sound_key]['data'], self.audio_cache[sound_key]['fs'], ...)
ThreadAfterPlayRereads(t, ok) ==
    [(IF ok THEN [threads[t] EXCEPT !.pc = "done"]
      ELSE ThreadRaised(t, "DeviceError"))
     EXCEPT !.writes = @ + 1,
            !.played = DictGet(audio_cache, threads[t].key)]

\* lines 159-162: the thread after sd.play returned (ok) or raised
ThreadAfterPlay(t, ok) ==
    [(IF ok THEN [threads[t] EXCEPT !.pc = "done"]
      ELSE ThreadRaised(t, "DeviceError"))
     EXCEPT !.writes = @ + 1, !.played = threads[t].audio]

\* line 159: sd.play(audio['data'], audio['fs'], blocksize=2048)
ThreadPlay(t) ==
    /\ running
    /\ threads[t].pc = "play"
    /\ \E ok \in BOOLEAN :
         /\ device' = DevCall(device, "play")
         /\ threads' = [threads EXCEPT ![t] = ThreadAfterPlay(t, ok)]
    /\ result' = NoResult
    /\ UNCHANGED << files, audio_cache, initialized, pc, cur, local, ncalls,
                    added, last_insert, true_plays, hist, running >>

\* the program ends: no call is in progress and the main thread returns. The
\* playback threads are daemon threads that nothing joins (daemon=True, line
\* 167), so the interpreter exits without waiting for them: a thread that has
\* not made its device write never makes it.
ProcessExit ==
    /\ running
    /\ \A c \in Callers : pc[c] = "idle"
    /\ running' = FALSE
    /\ result' = NoResult
    /\ UNCHANGED << files, audio_cache, initialized, pc, cur, local, threads,
                    device, ncalls, added, last_insert, true_plays, hist >>

\* one step of the thread t
ThreadStep(t) == t \in Threads /\ (ThreadLookup(t) \/ ThreadPlay(t))

----------------------------------------------------------------------------
(* get_audio_data, get_available_sounds, stop_all_sounds *)

\* line 175: if sound_key in self.audio_cache
GetCall(c, sound_key) ==
    /\ CanCall(c)
    /\ ncalls' = ncalls + 1
    /\ LET call == NewCall("get_audio_data", sound_key, << >>)
       IN  IF DictHas(audio_cache, sound_key)
           THEN /\ pc' = [pc EXCEPT ![c] = "get_read"]
                /\ cur' = [cur EXCEPT ![c] = call]
                /\ local' = local
                /\ result' = NoResult
           ELSE Return(c, call, "None")
    /\ UNCHANGED << files, audio_cache, initialized, threads, device, added,
                    last_insert, true_plays, hist, running >>

\* line 176: return self.audio_cache[sound_key]
GetRead(c) ==
    /\ pc[c] = "get_read"
    /\ IF DictHas(audio_cache, cur[c].key)
       THEN Finish(c, cur[c], "value", DictGet(audio_cache, cur[c].key), << >>, FALSE)
       ELSE Raise(c, cur[c])
    /\ UNCHANGED << files, audio_cache, initialized, threads, device, ncalls,
                    added, last_insert, true_plays, hist, running >>

\* get_available_sounds
AvailableSounds(c) ==
    /\ CanCall(c)
    /\ ncalls' = ncalls + 1
    /\ Finish(c, NewCall("get_available_sounds", "", << >>), "value", NoEntry,
              DictKeys(audio_cache), FALSE)
    /\ UNCHANGED << files, audio_cache, initialized, threads, device, added,
                    last_insert, true_plays, hist, running >>

\* the play_sound call that started the thread t has returned
PlayReturned(t) == \A c \in Callers : ~(pc[c] = "play_return" /\ local[c].tid = t)

\* the threads that have not reached their sd.play call yet
Pending == { t \in Threads : threads[t].pc \in { "start", "play" } }

\* stop_all_sounds written to cancel the playback threads that have not played
ThreadsCancelledByStop(ths) ==
    [t \in 1..Len(ths) |->
       IF ths[t].pc \in { "start", "play" }
       THEN [ths[t] EXCEPT !.pc = "cancelled"]
       ELSE ths[t]]

\* the playback threads after stop_all_sounds: it touches none of them
ThreadsAfterStop(ths) == ths

\* stop_all_sounds: sd.stop() ends what the device is playing, or raises
StopAll(c) ==
    /\ CanCall(c)
    /\ ncalls' = ncalls + 1
    /\ threads' = ThreadsAfterStop(threads)
    /\ \E ok \in BOOLEAN :
         /\ device' = DevCall(device, "stop")
         /\ hist' = [hist EXCEPT !.stopped =
                        IF ok THEN @ \cup { t \in Pending : PlayReturned(t) } ELSE @]
         /\ IF ok \/ CaughtIn("stop") = "stop_all_sounds"
            THEN Return(c, NewCall("stop_all_sounds", "", << >>), "None")
            ELSE Raise(c, NewCall("stop_all_sounds", "", << >>))
    /\ UNCHANGED << files, audio_cache, initialized, added, last_insert,
                    true_plays, running >>

----------------------------------------------------------------------------
(* The system *)

Next ==
    \/ \E c \in Callers : InitializeCall(c)
    \/ \E c \in Callers : InitConfigure(c)
    \/ \E c \in Callers : PreloadStep(c)
    \/ \E c \in Callers : WarmupPlay(c)
    \/ \E c \in Callers : SilenceEnds(c)
    \/ \E c \in Callers : WarmupWait(c)
    \/ \E c \in Callers : InitFinish(c)
    \/ \E c \in Callers, k \in CallKeys, p \in AddPaths : AddSoundCall(c, k, p)
    \/ \E c \in Callers : AddSoundStore(c)
    \/ \E c \in Callers, k \in PlayKeys : PlayCall(c, k)
    \/ \E c \in Callers : PlayReturn(c)
    \/ \E t \in Threads : ThreadLookup(t)
    \/ \E t \in Threads : ThreadPlay(t)
    \/ \E c \in Callers, k \in CallKeys : GetCall(c, k)
    \/ \E c \in Callers : GetRead(c)
    \/ \E c \in Callers : AvailableSounds(c)
    \/ \E c \in Callers : StopAll(c)
    \/ ProcessExit

Spec == Init /\ [][Next]_vars

\* while the process runs, the threads started by play_sound are scheduled:
\* one that can take a step eventually takes it. Once the process has ended
\* (ProcessExit) no thread can take a step, and none is required to.
SpecFair == Spec /\ \A t \in 1..MaxEvents : WF_vars(ThreadStep(t))

----------------------------------------------------------------------------
(* Properties *)

\* a call returned, or raised, in the step that led to this state
Returned(op) == result.op = op

\* C1: play_sound(k) for a key k that is not in the cache returns False, starts
\* no thread, makes no device call, and leaves the cache and the initialized
\* flag as they were.
C1_PlayMissingKey ==
    [][ (result'.op = "play_sound" /\ ~DictHas(audio_cache, result'.key))
        => /\ result'.ret = "False"
           /\ ~result'.exc
           /\ threads' = threads
           /\ device' = device
           /\ audio_cache' = audio_cache
           /\ initialized' = initialized ]_vars

\* play_sound has just returned False for a key that is not in the cache
C1_Witness ==
    /\ Returned("play_sound")
    /\ result.ret = "False"
    /\ ~DictHas(audio_cache, result.key)
    /\ audio_cache # << >>

\* C2: play_sound(k) for a key k in the cache returns True, and once the thread
\* is started nothing stands between the caller and "return True": the return
\* is enabled whatever the thread has done so far.
C2_PlayReturnsWithoutWaiting ==
    /\ \A c \in Callers :
         pc[c] = "play_return"
         => /\ local[c].tid \in Threads
            /\ threads[local[c].tid].key = cur[c].key
            /\ ENABLED PlayReturn(c)
    /\ (Returned("play_sound") /\ DictHas(audio_cache, result.key))
         => (result.ret = "True" /\ ~result.exc)

\* a caller is about to return True while its thread has not started, another
\* state has the thread between lookup and device write, and in this one the
\* device write is over
C2_Witness ==
    \E c \in Callers :
        /\ pc[c] = "play_return"
        /\ threads[local[c].tid].pc = "done"
        /\ threads[local[c].tid].writes = 1

\* C3: a device error inside a playback thread is caught inside the thread: the
\* step returns or raises nothing to any caller, changes neither the cache nor
\* the flag nor any caller's position; what play_sound returns depends on the
\* key being in the cache alone; and play_sound can still be called and still
\* starts a thread.
C3_ThreadErrorIsContained ==
    /\ [][ \A t \in Threads :
             (threads[t].pc = "play" /\ threads'[t].pc # "done" /\ threads'[t].pc # "play")
             => /\ threads'[t].pc = "error_logged"
                /\ threads'[t].err = "DeviceError"
                /\ result' = NoResult
                /\ audio_cache' = audio_cache
                /\ initialized' = initialized
                /\ pc' = pc
                /\ true_plays' = true_plays ]_vars
    /\ [][ result'.op = "play_sound"
           => /\ ~result'.exc
              /\ result'.ret = (IF DictHas(audio_cache, result'.key)
                                THEN "True" ELSE "False") ]_vars
    /\ [](\A c \in Callers, k \in PlayKeys :
             ((\E t \in Threads : threads[t].err = "DeviceError") /\ CanCall(c))
             => ENABLED PlayCall(c, k))

\* a first thread ended on a device error, and a later play_sound call has
\* returned True and its own thread has written to the device
C3_Witness ==
    /\ Len(threads) = 2
    /\ threads[1].pc = "error_logged"
    /\ threads[1].err = "DeviceError"
    /\ threads[2].pc = "done"
    /\ true_plays = 2

\* the device writes made by the playback threads so far
RECURSIVE WritesUpTo(_)
WritesUpTo(n) == IF n = 0 THEN 0 ELSE threads[n].writes + WritesUpTo(n - 1)

PlaybackWrites == WritesUpTo(Len(threads))

\* C4 as claimed: the playback device writes never outnumber the play_sound
\* calls that have returned True.
C4_WritesWithinReturnedPlays == PlaybackWrites <= true_plays

\* C4, amended: every play_sound call that finds its key starts its own thread
\* and returns True, whatever the other callers and threads do; no thread
\* calls sd.play twice, so the playback writes never outnumber the calls that
\* started a thread; and under fair scheduling, as long as the process does not
\* end, every thread calls sd.play exactly once (the calls of a run being
\* finitely many, from some state on the process has ended or every thread
\* started has made its write). A thread that has not written when the
\* process ends never writes.
C4_EachPlayWritesOnce ==
    /\ [](/\ \A t \in Threads : threads[t].writes <= 1
          /\ PlaybackWrites <= Len(threads)
          /\ Len(threads) = true_plays
                            + Cardinality({ c \in Callers : pc[c] = "play_return" }))
    /\ [][ \A c \in Callers :
             (pc[c] = "idle" /\ pc'[c] = "play_return")
             => /\ Len(threads') = Len(threads) + 1
                /\ local'[c].tid = Len(threads')
                /\ threads'[local'[c].tid] = NewThread(cur'[c].key) ]_vars
    /\ [][ \A c \in Callers :
             (pc[c] = "play_return" /\ pc'[c] # "play_return")
             => (result'.op = "play_sound" /\ result'.ret = "True") ]_vars
    /\ <>[](running => \A t \in Threads : threads[t].writes = 1)
    /\ [][ ~running => threads' = threads ]_vars

\* two play_sound calls on different cached keys were in progress at once, and
\* the thread of each has made its one device write
C4_Witness ==
    /\ \A c \in Callers : pc[c] = "play_return"
    /\ Len(threads) = 2
    /\ threads[1].key # threads[2].key
    /\ threads[1].writes = 1
    /\ threads[2].writes = 1

\* what the cache must hold for a decoded file: the decoded samples, a mono clip
\* with its one channel in both columns, and the decoded sample rate
ExpectedEntry(file) ==
    LET d == SfRead(file)
    IN  [data |-> IF file.channels = 1
                  THEN [shape |-> << FrameCount, 2 >>,
                        x |-> [j \in 1..FrameCount |-> << d.data.x[j], d.data.x[j] >>]]
                  ELSE d.data,
         fs |-> d.fs]

\* the entry under a key, NoEntry when there is none
EntryOf(d, k) == IF DictHas(d, k) THEN DictGet(d, k) ELSE NoEntry

\* C5: when add_sound(k, path) returns True the cache holds under k the buffer
\* and sample rate decoded from path, in place of what was there, and the other
\* keys are untouched; an entry changes only by a successful insert on its key;
\* and get_audio_data(k) returns the entry of the last successful insert on k.
C5_GetReturnsLastInsert ==
    /\ [](\A k \in AllKeys :
            DictHas(audio_cache, k)
            => /\ last_insert[k] # << >>
               /\ DictGet(audio_cache, k) = ExpectedEntry(files[last_insert[k]]))
    /\ [][ (result'.op = "add_sound" /\ result'.ret = "True")
           => /\ DictHas(audio_cache', result'.key)
              /\ DictGet(audio_cache', result'.key)
                   = ExpectedEntry(files[ResourcePath(result'.path)])
              /\ last_insert'[result'.key] = ResourcePath(result'.path)
              /\ \A k \in AllKeys \ { result'.key } :
                   EntryOf(audio_cache', k) = EntryOf(audio_cache, k) ]_vars
    /\ [][ \A k \in AllKeys :
             EntryOf(audio_cache', k) # EntryOf(audio_cache, k)
             => \/ result'.op = "add_sound" /\ result'.ret = "True" /\ result'.key = k
                \/ \E c \in Callers :
                     pc[c] = "init_preload" /\ default_sounds[local[c].idx].key = k ]_vars
    /\ [][ result'.op = "get_audio_data"
           => IF DictHas(audio_cache, result'.key)
              THEN /\ result'.ret = "value"
                   /\ result'.val = ExpectedEntry(files[last_insert[result'.key]])
              ELSE result'.ret = "None" ]_vars

\* get_audio_data has just returned, for a preloaded key that add_sound has
\* overwritten, the entry decoded by that add_sound call
C5_Witness ==
    /\ Returned("get_audio_data")
    /\ result.ret = "value"
    /\ result.key \in added
    /\ result.key \in DefaultKeys
    /\ last_insert[result.key] \in DOMAIN ExtraFiles
    /\ result.val = ExpectedEntry(files[last_insert[result.key]])

\* C6: when the file of add_sound(k, path) does not exist or does not decode,
\* add_sound returns False, raises nothing, and leaves the cache as it was.
C6_FailedAddChangesNothing ==
    [][ (result'.op = "add_sound"
           /\ files[ResourcePath(result'.path)].kind # "audio")
        => /\ result'.ret = "False"
           /\ ~result'.exc
           /\ audio_cache' = audio_cache ]_vars

\* add_sound has just returned False for an undecodable file and a key that is
\* in the cache, which still holds the preloaded entry
C6_Witness ==
    /\ Returned("add_sound")
    /\ result.ret = "False"
    /\ files[ResourcePath(result.path)].kind = "corrupt"
    /\ DictHas(audio_cache, result.key)
    /\ result.key \notin added

\* the default keys whose file exists, and those whose file exists and decodes
ExistingDefaults ==
    { default_sounds[i].key : i \in { j \in DefaultIdx : files[DefaultPath(j)].kind # "missing" } }

DecodableDefaults ==
    { default_sounds[i].key : i \in { j \in DefaultIdx : files[DefaultPath(j)].kind = "audio" } }

MissingDefaults == DefaultKeys \ ExistingDefaults

AllDefaultsDecode == ExistingDefaults = DecodableDefaults

\* the constructor has just returned
Constructed == ~Constructing /\ ncalls = 0

\* C7: when every default file that exists decodes, an initialization that got
\* past device configuration leaves in the cache exactly the default keys whose
\* file exists, wherever the missing ones are in the table, and raises nothing.
C7_MissingFilesAreSkipped ==
    /\ (Constructed /\ initialized /\ AllDefaultsDecode)
         => /\ KeySet(audio_cache) = ExistingDefaults
            /\ Len(audio_cache) = Len(default_sounds) - Cardinality(MissingDefaults)
            /\ ~result.exc
    /\ (initialized /\ AllDefaultsDecode)
         => /\ ExistingDefaults \subseteq KeySet(audio_cache)
            /\ (KeySet(audio_cache) \ added) \subseteq ExistingDefaults

\* the constructor has returned with one of the seven files missing, and six
\* entries in the cache
C7_Witness ==
    /\ Constructed
    /\ initialized
    /\ AllDefaultsDecode
    /\ Cardinality(MissingDefaults) = 1
    /\ Len(audio_cache) = 6

\* C8 as claimed: after a preload in which a file failed to decode, every
\* default key whose file exists and decodes is in the cache.
C8_DecodeFailureIsSkipped ==
    (Constructed /\ initialized) => DecodableDefaults \subseteq KeySet(audio_cache)

\* C9 as claimed: when the first initialize call returns, nothing was raised,
\* the flag is set, and the default keys whose file exists and decodes are in
\* the cache.
C9_InitializeIsBestEffort ==
    Constructed
    => /\ ~result.exc
       /\ initialized
       /\ DecodableDefaults \subseteq KeySet(audio_cache)

\* C10: an initialize call made while the flag is set returns at once and
\* changes neither the cache nor the flag, and makes no device call.
C10_InitializeIsIdempotent ==
    [][ (/\ initialized
         /\ ncalls' = ncalls + 1
         /\ \/ result'.op = "initialize"
            \/ \E c \in Callers : cur'[c].op = "initialize" /\ cur'[c].call = ncalls')
        => /\ result'.op = "initialize"
           /\ ~result'.exc
           /\ audio_cache' = audio_cache
           /\ initialized' = initialized
           /\ device' = device
           /\ threads' = threads ]_vars

\* initialize has just returned from a call made after add_sound overwrote a
\* preloaded entry, and the device was configured once only
C10_Witness ==
    /\ Returned("initialize")
    /\ result.call > 0
    /\ initialized
    /\ added # {}
    /\ device.configure = 1
    /\ device.wait + device.play <= 2

\* the keys on which an insert, of the preload or of add_sound, has succeeded
InsertedKeys == { k \in AllKeys : last_insert[k] # << >> }

NoDuplicates(s) == \A i, j \in 1..Len(s) : s[i] = s[j] => i = j

\* C11: get_available_sounds returns exactly the keys on which an insert of the
\* preload or of add_sound has succeeded so far: none is missing, none appears
\* twice, and no key of a failed insert appears; the call does not raise and
\* changes nothing.
C11_AvailableKeysAreInsertedKeys ==
    /\ [](Returned("get_available_sounds")
            => /\ ~result.exc
               /\ { result.keys[i] : i \in 1..Len(result.keys) } = InsertedKeys
               /\ NoDuplicates(result.keys))
    /\ [][ result'.op = "get_available_sounds"
           => /\ audio_cache' = audio_cache
              /\ last_insert' = last_insert
              /\ threads' = threads
              /\ device' = device
              /\ initialized' = initialized ]_vars

\* the keys were listed after the preload stored every default sound and
\* add_sound stored one more key
C11_Witness ==
    /\ Returned("get_available_sounds")
    /\ "chime" \in added
    /\ Len(result.keys) = Len(default_sounds) + 1

\* C12: no step of initialize, add_sound, play_sound, its thread,
\* get_audio_data, get_available_sounds or stop_all_sounds removes a key from
\* the cache: the set of keys only grows.
C12_KeysOnlyGrow ==
    [][ /\ KeySet(audio_cache) \subseteq KeySet(audio_cache')
        /\ Len(audio_cache') >= Len(audio_cache) ]_vars

\* add_sound stored an eighth key beside the seven default ones, and a later
\* call found all eight
C12_Witness ==
    /\ result.op \in { "stop_all_sounds", "play_sound", "get_audio_data" }
    /\ result.call = 2
    /\ added = { "chime" }
    /\ KeySet(audio_cache) = DefaultKeys \cup { "chime" }

\* the number of channels of a stored buffer: the second dimension of its shape
Channels(entry) == entry.data.shape[2]

\* C13: every buffer stored in the cache, by the preload or by add_sound, has
\* exactly 2 channels per frame, whatever channel count the decoder reported
\* (1, 2 or more than 2).
C13_StoredBuffersAreStereo ==
    \A i \in 1..Len(audio_cache) :
        /\ Len(audio_cache[i].val.data.shape) = 2
        /\ Channels(audio_cache[i].val) = 2

\* the file whose decoding is stored under the key k
SourceFile(k) == files[last_insert[k]]

\* C14: a mono clip of N frames is stored as N frames whose two channels both
\* equal the original sample, at the sample rate of the file; a stereo clip is
\* stored as decoded, at the sample rate of the file.
C14_MonoIsDuplicated ==
    \A k \in KeySet(audio_cache) :
        LET entry == DictGet(audio_cache, k)
            file == SourceFile(k)
        IN  /\ file.channels = 1
               => /\ entry.data.shape = << FrameCount, 2 >>
                  /\ Len(entry.data.x) = FrameCount
                  /\ \A j \in 1..FrameCount :
                       entry.data.x[j] = << Sample(file.id, j, 1), Sample(file.id, j, 1) >>
                  /\ entry.fs = file.fs
            /\ file.channels = 2
               => /\ entry.data = SfRead(file).data
                  /\ entry.fs = file.fs

\* the cache holds a mono clip stored by add_sound, a mono clip stored by the
\* preload, and a stereo clip
C14_Witness ==
    /\ \E k \in added : SourceFile(k).channels = 1
    /\ \E k \in KeySet(audio_cache) \ added : SourceFile(k).channels = 1
    /\ \E k \in KeySet(audio_cache) : SourceFile(k).channels = 2

\* the entry is what one successful insert stores: the converted data and the
\* sample rate of one and the same decoded file
FromOneInsert(entry) ==
    \E p \in DOMAIN files :
        /\ files[p].kind = "audio"
        /\ entry = MakeEntry(SfRead(files[p]))

\* the thread t has read its entry from the cache
HasRead(t) == threads[t].pc # "start" /\ threads[t].err # "KeyError"

\* C15: a reader that runs concurrently with an insert on the same key, be it
\* get_audio_data or the lookup of a playback thread, never sees a partly
\* written entry: what it reads is the whole entry that is in the cache at the
\* moment of the read, whose data and sample rate come from one and the same
\* successful insert, and what the thread hands to the device is that entry.
C15_ReadsAreWholeEntries ==
    /\ [](\A t \in Threads :
            /\ HasRead(t) => FromOneInsert(threads[t].audio)
            /\ threads[t].writes > 0 => FromOneInsert(threads[t].played))
    /\ []((Returned("get_audio_data") /\ result.ret = "value")
            => FromOneInsert(result.val))
    /\ [][ \A t \in Threads :
             (~HasRead(t) /\ HasRead(t)')
             => threads'[t].audio = DictGet(audio_cache, threads[t].key) ]_vars
    /\ [][ (result'.op = "get_audio_data" /\ result'.ret = "value")
           => result'.val = DictGet(audio_cache, result'.key) ]_vars

\* a thread has read its entry while add_sound, on the same key, was between
\* decoding its file and storing the entry, and the two entries differ in data
\* and in sample rate
C15_Witness ==
    \E t \in Threads, c \in Callers :
        /\ HasRead(t)
        /\ pc[c] = "add_store"
        /\ cur[c].key = threads[t].key
        /\ local[c].entry.data # threads[t].audio.data
        /\ local[c].entry.fs # threads[t].audio.fs

\* C16: stop_all_sounds makes one stop request to the device; when the device
\* raises, the error is logged and not raised to the caller; the call leaves
\* the cache, the initialized flag and the playback threads as they were; and
\* after it a play_sound call on a cached key still starts its thread.
C16_StopIsBestEffort ==
    /\ [][ result'.op = "stop_all_sounds"
           => /\ device' = DevCall(device, "stop")
              /\ result'.ret = "None"
              /\ ~result'.exc
              /\ audio_cache' = audio_cache
              /\ initialized' = initialized
              /\ threads' = threads ]_vars
    /\ [](\A c \in Callers, k \in PlayKeys :
            (device.stop > 0 /\ CanCall(c) /\ DictHas(audio_cache, k))
            => ENABLED (PlayCall(c, k) /\ Len(threads') = Len(threads) + 1))

\* play_sound returned True for a call made after stop_all_sounds had returned,
\* and its thread has played
C16_Witness ==
    /\ Returned("play_sound")
    /\ result.ret = "True"
    /\ result.call = 2
    /\ device.stop = 1
    /\ Len(threads) = 1
    /\ threads[1].writes = 1

\* the steps of initialize in the order of the code: where a caller at a label
\* can be after its next step
InitOrder ==
    [init_config  |-> { "init_preload", "idle" },
     init_preload |-> { "init_preload", "init_warmup" },
     init_warmup  |-> { "init_wait", "init_flag" },
     init_wait    |-> { "init_wait", "init_flag" },
     init_flag    |-> { "idle" }]

\* C17: initialize runs its steps in the order device configuration, preload,
\* warm-up, set the flag; the warm-up blocks: a caller reaches the line that
\* sets the flag, and so returns from a run that sets it, only after sd.wait()
\* has returned, which it does only once the silent buffer is no longer playing,
\* or after the warm-up has failed; and as long as initialize calls do not
\* overlap, retries after a failed attempt included, the preload and the
\* warm-up each run at most once.
C17_InitializeOrder ==
    /\ [][ \A c \in Callers :
             pc[c] \in DOMAIN InitOrder
             => /\ pc'[c] \in InitOrder[pc[c]] \cup { pc[c] }
                /\ (pc'[c] = "init_flag" /\ pc[c] # "init_flag")
                   => /\ local'[c].warm \in { "waited", "failed" }
                      /\ local'[c].warm = "waited" => local[c].warm = "over" ]_vars
    /\ [][ initialized' # initialized
           => \E c \in Callers :
                pc[c] = "init_flag" /\ pc'[c] = "idle" /\ initialized' ]_vars
    /\ [][ /\ device'.configure # device.configure
              => \E c \in Callers : pc[c] = "init_config" /\ pc'[c] # pc[c]
           /\ hist'.preloads # hist.preloads
              => \E c \in Callers : pc[c] = "init_config" /\ pc'[c] = "init_preload"
           /\ hist'.warmups # hist.warmups
              => \E c \in Callers : pc[c] = "init_warmup" /\ pc'[c] # pc[c] ]_vars
    /\ [](\A c \in Callers :
            pc[c] = "init_flag" => local[c].warm \in { "waited", "failed" })
    /\ [](~hist.overlapped => (hist.preloads <= 1 /\ hist.warmups <= 1))

\* the constructor's attempt failed at the device configuration; a later call
\* of initialize configured the device, ran the preload, played the silent
\* buffer and waited for its end, and is about to set the flag
C17_Witness ==
    \E c \in Callers :
        /\ pc[c] = "init_flag"
        /\ cur[c].call > 0
        /\ local[c].warm = "waited"
        /\ device.configure = 2
        /\ hist.preloads = 1
        /\ hist.warmups = 1
        /\ ~hist.overlapped
        /\ Len(audio_cache) = Len(default_sounds)

\* C18: the lookup "self.audio_cache[sound_key]" inside a playback thread never
\* misses: the key that play_sound found is still in the cache when the thread
\* reads it, under every interleaving with add_sound, initialize and
\* stop_all_sounds, so no thread ends with a KeyError.
C18_ThreadLookupNeverMisses ==
    \A t \in Threads :
        /\ DictHas(audio_cache, threads[t].key)
        /\ threads[t].err # "KeyError"
        /\ threads[t].pc # "start" => threads[t].audio # NoEntry

\* a thread found its key after add_sound had overwritten the entry that was
\* there when play_sound was called
C18_Witness ==
    \E t \in Threads :
        /\ HasRead(t)
        /\ threads[t].key \in added
        /\ threads[t].audio # hist.at_call[t]
        /\ threads[t].audio = DictGet(audio_cache, threads[t].key)

\* C19, as claimed: what a thread hands to the device is the entry that was
\* stored under its key when play_sound was called.
C19_PlaysEntryAtCall ==
    \A t \in Threads :
        threads[t].writes > 0 => threads[t].played = hist.at_call[t]

\* C19: what a thread hands to the device is the entry that is stored under
\* its key at the moment the thread does its own lookup (line 157), which
\* comes after the play_sound call has started it: an entry that add_sound
\* stores between the call and the lookup is the one played, and an entry
\* stored after the lookup, before the device write, is not.
C19_PlaysEntryAtLookup ==
    /\ [][ \A t \in Threads :
             /\ (~HasRead(t) /\ HasRead(t)')
                => threads'[t].audio = DictGet(audio_cache, threads[t].key)
             /\ HasRead(t) => threads'[t].audio = threads[t].audio
             /\ threads'[t].writes > threads[t].writes
                => /\ HasRead(t)
                   /\ threads'[t].played = threads[t].audio ]_vars
    /\ [](\A t \in Threads :
            threads[t].writes > 0 => threads[t].played = threads[t].audio)

\* add_sound overwrote the entry after play_sound had returned True and before
\* the thread looked it up, and the thread has played the new entry
C19_Witness ==
    \E t \in Threads :
        /\ threads[t].writes = 1
        /\ true_plays = 1
        /\ threads[t].key \in added
        /\ hist.at_call[t] \in { MakeEntry(SfRead(DefaultAudio(i))) : i \in DefaultIdx }
        /\ threads[t].played = MakeEntry(SfRead(ExtraFiles[last_insert[threads[t].key]]))

\* C20, as claimed: a thread whose play_sound call had returned True before
\* stop_all_sounds stopped the device, and that had not reached its sd.play
\* call then, never makes that call afterwards.
C20_NoWriteAfterStop ==
    \A t \in hist.stopped : threads[t].writes = 0

\* C20: stop_all_sounds asks the device to stop what it is playing at that
\* moment and cancels no playback thread: a thread whose play_sound call
\* returned True before stop_all_sounds and that has not reached its sd.play
\* call is left as it was, stays able to run while the process runs, and,
\* unless the process ends first, makes its device write after
\* stop_all_sounds has returned, exactly once when the threads are scheduled.
C20_StopCancelsNoThread ==
    /\ [][ device'.stop # device.stop
           => /\ threads' = threads
              /\ hist'.stopped = hist.stopped \/ hist'.stopped = hist.stopped \cup
                   { t \in Pending : PlayReturned(t) } ]_vars
    /\ [](\A t \in hist.stopped :
            (running /\ threads[t].pc \in { "start", "play" })
            => ENABLED ThreadStep(t))
    /\ <>[](running => \A t \in hist.stopped : threads[t].writes = 1)

\* a thread made its device write after a stop_all_sounds call that came
\* after its play_sound call had returned True
C20_Witness ==
    \E t \in hist.stopped :
        /\ threads[t].writes = 1
        /\ threads[t].played = hist.at_call[t]
        /\ device.stop = 1
        /\ device.play = 2

\* play_sound returned True and the process ended before the thread reached
\* its device write
ExitedBeforeWrite ==
    /\ ~running
    /\ true_plays > 0
    /\ \E t \in Threads : threads[t].writes = 0

====
